---- MODULE Spec2Model ----
(***************************************************************************)
(* State-synchronisation core of the monitoring dashboard (src/src/App.tsx)*)
(* The App component keeps four entities in React state cells (cameras,    *)
(* predictions, status, errors).  fetchData refreshes them from four GET   *)
(* endpoints; a socket.io subscription prepends pushed predictions; an     *)
(* effect starts both on mount and clears the interval on unmount.         *)
(*                                                                         *)
(* Everything runs on one JavaScript event loop, so every action below is  *)
(* one run-to-completion block of the source: from one `await` (or event   *)
(* delivery) to the next suspension point.                                 *)
(***************************************************************************)
EXTENDS Integers, Sequences, FiniteSets, TLC

(***************************************************************************)
(* Bounds of the model.                                                    *)
(***************************************************************************)
\* number of times the view may be mounted (each mount is a fresh instance)
MaxViews == 1
\* number of fetchData calls that may be in flight at once
MaxInFlight == 1
\* the push handler is not fired once the prediction list has this length
MaxPredLen == 3
\* largest uptime, in seconds, of the contiguous range of formatUptime inputs
MaxSeconds == 7300
\* calls of fetchData in flight at a time where overlapping calls are followed
MaxOverlap == 2

(***************************************************************************)
(* The four resources, in the order of the Promise.all array and of the    *)
(* four `if (...Res.ok)` lines.                                            *)
(***************************************************************************)
CAMERAS == 1
PREDICTIONS == 2
STATUS == 3
ERRORS == 4
Resources == {CAMERAS, PREDICTIONS, STATUS, ERRORS}

\* useState<Status | null>(null)
Null == [null |-> TRUE]

(***************************************************************************)
(* JSON decoding (Response.json() and JSON.parse).  Texts are the raw      *)
(* bodies / payloads; JsonTable gives the value each well-formed text      *)
(* denotes.  A text outside the table is not valid JSON: decoding throws.  *)
(* The status object "{s2}" lacks the `cameras` field: the code does not   *)
(* validate shapes, whatever decodes is stored.                            *)
(***************************************************************************)
JsonTable ==
    "[]"        :> << >>
 @@ "[cam1]"    :> << "cam1" >>
 @@ "[pA,pB]"   :> << "pA", "pB" >>
 @@ "[e1]"      :> << "e1" >>
 @@ "{s1}"      :> [cameras |-> 1, uptime |-> 59]
 @@ "{s2}"      :> [uptime |-> 3661]
 @@ "{p0}"      :> "p0"

IsJson(text) == text \in DOMAIN JsonTable

JSONparse(text) == JsonTable[text]

\* bodies a successful response of each endpoint may carry
BodyTexts(r) ==
    CASE r = CAMERAS     -> {"[]", "[cam1]", "<html>"}
      [] r = PREDICTIONS -> {"[]", "[pA,pB]", "<html>"}
      [] r = STATUS      -> {"{s1}", "{s2}", "<html>"}
      [] r = ERRORS      -> {"[]", "[e1]", "<html>"}

\* payloads the server may emit on topic send_sensor_data
PushTexts == {"{p0}", "{p0"}

\* how one fetch() of a Promise.all settles: fulfilled with res.ok,
\* fulfilled with a non-success status, or rejected (network error)
Outcomes == {"ok", "notok", "reject"}

(***************************************************************************)
(* State.                                                                  *)
(***************************************************************************)
VARIABLES
    cameras,        \* useState<Camera[]>([])
    predictions,    \* useState<Prediction[]>([])
    status,         \* useState<Status | null>(null)
    errors,         \* useState<SystemError[]>([])
    view,           \* number of the current (latest) instance of App
    mounted,        \* whether that instance is mounted
    interval,       \* instances whose setInterval timer is active
    sockets,        \* instances whose socket.io connection is open
    cycles,         \* fetchData calls in flight, in the order they started
    lastError,      \* last diagnostic: "none", "fetch" (console.error in the
                    \* catch of fetchData), "uncaught" (exception leaving the
                    \* push handler)
    isLogExpanded,  \* useState(false)
    arrived         \* the fetches of the call awaiting Promise.all that have
                    \* settled, in the order they settled, each <<r, outcome>>
                    \* (followed only where single settlements are steps)

snapshot == <<cameras, predictions, status, errors>>
lifecycle == <<view, mounted, interval, sockets>>
vars == <<cameras, predictions, status, errors, view, mounted, interval,
          sockets, cycles, lastError, isLogExpanded, arrived>>

\* a fetchData call that has just issued its four fetches and awaits
\* Promise.all; pc = 0 is that await, pc = r is `await <r>Res.json()`;
\* ok[r] is <r>Res.ok, known once Promise.all has settled
NewCycle(v) == [view |-> v, pc |-> 0, ok |-> [r \in Resources |-> FALSE]]

Init ==
    /\ cameras = << >>
    /\ predictions = << >>
    /\ status = Null
    /\ errors = << >>
    /\ view = 0
    /\ mounted = FALSE
    /\ interval = {}
    /\ sockets = {}
    /\ cycles = << >>
    /\ lastError = "none"
    /\ isLogExpanded = FALSE
    /\ arrived = << >>

(***************************************************************************)
(* useEffect(() => {...}, []) : the effect body, run when an instance of   *)
(* App mounts: fetchData(), io(...) with its two handlers, setInterval.    *)
(* The instance holds the useState initial values at that point.           *)
(***************************************************************************)
Mount ==
    /\ ~mounted
    /\ view < MaxViews
    /\ Len(cycles) < MaxInFlight
    /\ view' = view + 1
    /\ mounted' = TRUE
    /\ cycles' = Append(cycles, NewCycle(view'))
    /\ sockets' = sockets \cup {view'}
    /\ interval' = interval \cup {view'}
    /\ UNCHANGED <<snapshot, lastError, isLogExpanded, arrived>>

(***************************************************************************)
(* The cleanup returned by the effect: `return () => clearInterval(interval)` *)
(* It clears the timer of the instance being torn down and nothing else.   *)
(* React discards the state cells of the instance; the next instance       *)
(* starts again from the useState initial values.                          *)
(***************************************************************************)
\* variant: the cleanup forgets clearInterval
UnmountLeavesTimer ==
    /\ mounted
    /\ mounted' = FALSE
    /\ cameras' = << >>
    /\ predictions' = << >>
    /\ status' = Null
    /\ errors' = << >>
    /\ isLogExpanded' = FALSE
    /\ UNCHANGED <<view, interval, sockets, cycles, lastError, arrived>>

Unmount ==
    /\ mounted
    /\ mounted' = FALSE
    /\ interval' = interval \ {view}
    /\ cameras' = << >>
    /\ predictions' = << >>
    /\ status' = Null
    /\ errors' = << >>
    /\ isLogExpanded' = FALSE
    /\ UNCHANGED <<view, sockets, cycles, lastError, arrived>>

(***************************************************************************)
(* setInterval(fetchData, 1000): a period tick of the timer of instance v  *)
(* calls fetchData, which issues the four fetches and suspends at the      *)
(* `await Promise.all([...])`.  There is no guard against an earlier call  *)
(* still being in flight; n bounds the calls followed at a time.           *)
(***************************************************************************)
\* variant: a tick is skipped while an earlier call is in flight
TickUnlessInFlight(v, n) ==
    /\ v \in interval
    /\ cycles = << >>
    /\ cycles' = Append(cycles, NewCycle(v))
    /\ UNCHANGED <<snapshot, lifecycle, lastError, isLogExpanded, arrived>>

TickWithin(v, n) ==
    /\ v \in interval
    /\ Len(cycles) < n
    /\ cycles' = Append(cycles, NewCycle(v))
    /\ UNCHANGED <<snapshot, lifecycle, lastError, isLogExpanded, arrived>>

Tick(v) == TickWithin(v, MaxInFlight)

(***************************************************************************)
(* Helpers of fetchData.                                                   *)
(***************************************************************************)
\* position after the last `if (...Res.ok)` line: fetchData returns
Done == ERRORS + 1

\* from line r on, the first resource whose response is ok: the `if` of a
\* response that is not ok falls through without suspending
\* the position of r's fetch in the order of settlement, 0 while pending
ArrivalOf(r) ==
    IF \E k \in 1..Len(arrived) : arrived[k][1] = r
    THEN CHOOSE k \in 1..Len(arrived) : arrived[k][1] = r
    ELSE 0

\* variant: the response that arrived first is handled first
NextAwaitFirstArrived(ok, r) ==
    LET waiting == {q \in Resources : q >= r /\ ok[q]}
    IN  IF waiting = {} THEN Done
        ELSE CHOOSE q \in waiting :
                \A p \in waiting : ArrivalOf(q) <= ArrivalOf(p)

\* variant: the `if (...Res.ok)` test is missing, every line awaits json()
NextAwaitIgnoresOk(ok, r) == r

RECURSIVE NextAwait(_, _)
NextAwait(ok, r) ==
    IF r = Done THEN Done
    ELSE IF ok[r] THEN r
    ELSE NextAwait(ok, r + 1)

\* variant: a rejected fetch does not reject the join (allSettled)
PromiseAllNeverRejects(out) == FALSE

\* Promise.all rejects as soon as one of its promises rejects
PromiseAllRejects(out) == \E r \in Resources : out[r] = "reject"

\* React applies a state update only to a mounted instance; an update
\* queued for an instance that was torn down is dropped
Live(v) == mounted /\ v = view

\* the cycle at position i leaves the list (fetchData returned)
Remove(seq, i) == SubSeq(seq, 1, i - 1) \o SubSeq(seq, i + 1, Len(seq))

\* the ok flags still to be read by a cycle suspended at line pc: those of
\* line pc and of the lines after it (a flag is read once, by its own line)
Unread(ok, pc) == [r \in Resources |-> r >= pc /\ ok[r]]

\* the cycle at position i, holding responses with flags ok, suspends at
\* the json() of line pc, or returns when no line is left
Advance(i, ok, pc) ==
    IF pc = Done THEN Remove(cycles, i)
    ELSE [cycles EXCEPT ![i].pc = pc, ![i].ok = Unread(ok, pc)]

\* setCameras(value), setPredictions(value), setStatus(value),
\* setErrors(value): the state cell becomes the value passed
Range(seq) == {seq[k] : k \in 1..Len(seq)}

\* variant: the fetched list is merged into the present one, entries that
\* are not in the fetched list being kept in front of it
SetPredictionsMerges(prev, value) ==
    SelectSeq(prev, LAMBDA x : x \notin Range(value)) \o value

\* variant: the fetched list is put in front of the present one
SetPredictionsPrepends(prev, value) == value \o prev

\* variant: the fields of the new status are spread over the old one
SetStatusMerges(prev, value) == IF prev = Null THEN value ELSE value @@ prev

\* variant: the new item is put behind the present ones
PrependAtEnd(parsedData, prevPredictions) == prevPredictions \o <<parsedData>>
\* variant: the push evicts the oldest entry
PrependEvictsOldest(parsedData, prevPredictions) ==
    <<parsedData>> \o SubSeq(prevPredictions, 1, Len(prevPredictions) - 1)

SetCameras(prev, value) == value
SetPredictions(prev, value) == value
SetStatus(prev, value) == value
SetErrors(prev, value) == value

\* setPredictions((prevPredictions) => [parsedData, ...prevPredictions])
Prepend(parsedData, prevPredictions) == <<parsedData>> \o prevPredictions

(***************************************************************************)
(* `await Promise.all([...])` of the cycle at position i settles, the four *)
(* fetches having settled as `out`.  A rejection enters the catch block    *)
(* (console.error) and fetchData returns.  Otherwise the code runs the     *)
(* `if (...Res.ok)` lines up to the first `await ...Res.json()`.           *)
(***************************************************************************)
PromiseAllSettles(i, out) ==
    /\ i \in 1..Len(cycles)
    /\ cycles[i].pc = 0
    /\ IF PromiseAllRejects(out)
       THEN /\ cycles' = Remove(cycles, i)
            /\ lastError' = "fetch"
       ELSE LET ok == [r \in Resources |-> out[r] = "ok"]
            IN /\ cycles' = Advance(i, ok, NextAwait(ok, CAMERAS))
               /\ UNCHANGED lastError
    /\ UNCHANGED <<snapshot, lifecycle, isLogExpanded, arrived>>

(***************************************************************************)
(* `await <r>Res.json()` of the cycle at position i settles, r being the   *)
(* line the cycle is suspended at and `text` the body read.  A body that   *)
(* decodes is passed to the setter of r and the code runs on to the next   *)
(* json(); a body that does not decode makes json() reject, which enters   *)
(* the catch block and ends fetchData, the remaining lines not being run.  *)
(***************************************************************************)
JsonResolves(i, text) ==
    /\ i \in 1..Len(cycles)
    /\ cycles[i].pc \in Resources
    /\ LET c == cycles[i]
           r == c.pc
           live == Live(c.view)
       IN /\ text \in BodyTexts(r)
          /\ IF IsJson(text)
             THEN LET value == JSONparse(text)
                  IN /\ cameras' = IF live /\ r = CAMERAS
                                   THEN SetCameras(cameras, value)
                                   ELSE cameras
                     /\ predictions' = IF live /\ r = PREDICTIONS
                                       THEN SetPredictions(predictions, value)
                                       ELSE predictions
                     /\ status' = IF live /\ r = STATUS
                                  THEN SetStatus(status, value)
                                  ELSE status
                     /\ errors' = IF live /\ r = ERRORS
                                  THEN SetErrors(errors, value)
                                  ELSE errors
                     /\ cycles' = Advance(i, c.ok, NextAwait(c.ok, r + 1))
                     /\ UNCHANGED lastError
             ELSE /\ cycles' = Remove(cycles, i)
                  /\ lastError' = "fetch"
                  /\ UNCHANGED snapshot
    /\ UNCHANGED <<lifecycle, isLogExpanded, arrived>>

(***************************************************************************)
(* socket.on('send_sensor_data', (data) => {...}) of the socket opened by  *)
(* instance s receives payload `data`.  JSON.parse throws on a payload     *)
(* that is not JSON: the exception leaves the handler uncaught and the     *)
(* setPredictions line is not reached.                                     *)
(***************************************************************************)
\* variant: a payload that does not decode also closes the connection
OnSendSensorDataClosesOnError(s, data) ==
    /\ s \in sockets
    /\ data \in PushTexts
    /\ (Live(s) /\ IsJson(data)) => Len(predictions) < MaxPredLen
    /\ IF IsJson(data)
       THEN /\ predictions' = IF Live(s)
                              THEN Prepend(JSONparse(data), predictions)
                              ELSE predictions
            /\ UNCHANGED <<lastError, sockets>>
       ELSE /\ lastError' = "uncaught"
            /\ sockets' = sockets \ {s}
            /\ UNCHANGED predictions
    /\ UNCHANGED <<cameras, status, errors, view, mounted, interval, cycles,
                   isLogExpanded, arrived>>

OnSendSensorData(s, data) ==
    /\ s \in sockets
    /\ data \in PushTexts
    /\ (Live(s) /\ IsJson(data)) => Len(predictions) < MaxPredLen
    /\ IF IsJson(data)
       THEN /\ predictions' = IF Live(s)
                              THEN Prepend(JSONparse(data), predictions)
                              ELSE predictions
            /\ UNCHANGED lastError
       ELSE /\ lastError' = "uncaught"
            /\ UNCHANGED predictions
    /\ UNCHANGED <<cameras, status, errors, lifecycle, cycles,
                   isLogExpanded, arrived>>

Next ==
    \/ Mount
    \/ Unmount
    \/ \E v \in 1..MaxViews : Tick(v)
    \/ \E i \in 1..MaxInFlight, out \in [Resources -> Outcomes] :
          PromiseAllSettles(i, out)
    \/ \E i \in 1..MaxInFlight, text \in UNION {BodyTexts(r) : r \in Resources} :
          JsonResolves(i, text)
    \/ \E s \in 1..MaxViews, data \in PushTexts : OnSendSensorData(s, data)

Spec == Init /\ [][Next]_vars

(***************************************************************************)
(* The rendered view.  The log toggle and the uptime text.                 *)
(***************************************************************************)
\* variant: toggling the log also empties it
ToggleLogClears ==
    /\ mounted
    /\ isLogExpanded' = ~isLogExpanded
    /\ predictions' = << >>
    /\ UNCHANGED <<cameras, status, errors, lifecycle, cycles, lastError,
                   arrived>>

\* onToggle of PredictionLog: setIsLogExpanded(!isLogExpanded)
ToggleLog ==
    /\ mounted
    /\ isLogExpanded' = ~isLogExpanded
    /\ UNCHANGED <<snapshot, lifecycle, cycles, lastError, arrived>>

\* `${n}` of a non-negative integer: its decimal digits
Digits == <<"0", "1", "2", "3", "4", "5", "6", "7", "8", "9">>

RECURSIVE NumberToString(_)
NumberToString(n) ==
    IF n < 10 THEN Digits[n + 1]
    ELSE NumberToString(n \div 10) \o Digits[(n % 10) + 1]

\* variant: the minutes are not reduced modulo the hour
formatUptimeTotalMinutes(seconds) ==
    LET hours   == seconds \div 3600
        minutes == seconds \div 60
    IN  NumberToString(hours) \o "h " \o NumberToString(minutes) \o "m"

formatUptime(seconds) ==
    LET hours   == seconds \div 3600
        minutes == (seconds % 3600) \div 60
    IN  NumberToString(hours) \o "h " \o NumberToString(minutes) \o "m"

\* the text of the uptime row: {status && ... formatUptime(status.uptime)}
UptimeShown ==
    IF status = Null THEN "" ELSE formatUptime(status.uptime)

\* uptimes a status response may carry: every value up to MaxSeconds, and
\* two beyond a day (25h 1m 1s, 100h)
Uptimes == (0..MaxSeconds) \cup {90061, 360000}

\* a mounted view whose last applied status response carries any uptime
InitUptime ==
    /\ cameras = << >>
    /\ predictions = << >>
    /\ status \in [uptime : Uptimes]
    /\ errors = << >>
    /\ view = 1
    /\ mounted = TRUE
    /\ interval = {1}
    /\ sockets = {1}
    /\ cycles = << >>
    /\ lastError = "none"
    /\ isLogExpanded = FALSE
    /\ arrived = << >>

\* the view is rendered again at each toggle, status unchanged
SpecUptime == InitUptime /\ [][ToggleLog]_vars

(***************************************************************************)
(* One fetchData call with the settlement of each of its four fetches as   *)
(* a step of its own.  Promise.all settles once all four have fulfilled,   *)
(* or as soon as one has rejected, the others then still pending.          *)
(***************************************************************************)
\* the state right after mount: the first fetchData call has issued its
\* four fetches
InitOrder ==
    /\ cameras = << >>
    /\ predictions = << >>
    /\ status = Null
    /\ errors = << >>
    /\ view = 1
    /\ mounted = TRUE
    /\ interval = {1}
    /\ sockets = {1}
    /\ cycles = <<NewCycle(1)>>
    /\ lastError = "none"
    /\ isLogExpanded = FALSE
    /\ arrived = << >>

\* a fetch has rejected
Rejected(arr) == \E k \in 1..Len(arr) : arr[k][2] = "reject"

\* Promise.all has what it needs to settle
Decided(arr) == Len(arr) = Cardinality(Resources) \/ Rejected(arr)

\* fetch(r) of the call settles with outcome o
FetchSettles(r, o) ==
    /\ Len(cycles) = 1
    /\ cycles[1].pc = 0
    /\ ~Decided(arrived)
    /\ ArrivalOf(r) = 0
    /\ arrived' = Append(arrived, <<r, o>>)
    /\ UNCHANGED <<snapshot, lifecycle, cycles, lastError, isLogExpanded>>

\* the continuation of `await Promise.all` runs; fetches still pending at
\* a rejection may end either way
PromiseAllDecides ==
    /\ Decided(arrived)
    /\ \E out \in [Resources -> Outcomes] :
          /\ \A k \in 1..Len(arrived) : out[arrived[k][1]] = arrived[k][2]
          /\ PromiseAllSettles(1, out)

NextOrder ==
    \/ \E r \in Resources, o \in Outcomes : FetchSettles(r, o)
    \/ PromiseAllDecides
    \/ \E text \in UNION {BodyTexts(r) : r \in Resources} :
          JsonResolves(1, text)
    \/ \E data \in PushTexts : OnSendSensorData(1, data)

SpecOrder == InitOrder /\ [][NextOrder]_vars

(***************************************************************************)
(* Overlapping calls of fetchData: one mounted view whose timer ticks      *)
(* while earlier calls are still in flight.                                *)
(***************************************************************************)
NextOverlap ==
    \/ Mount
    \/ \E v \in 1..MaxViews : TickWithin(v, MaxOverlap)
    \/ \E i \in 1..MaxOverlap, out \in [Resources -> Outcomes] :
          PromiseAllSettles(i, out)
    \/ \E i \in 1..MaxOverlap, text \in UNION {BodyTexts(r) : r \in Resources} :
          JsonResolves(i, text)

SpecOverlap == Init /\ [][NextOverlap]_vars

(***************************************************************************)
(* The program with the log toggle of the rendered view.                   *)
(***************************************************************************)
NextUI ==
    \/ Next
    \/ ToggleLog

SpecUI == Init /\ [][NextUI]_vars

(***************************************************************************)
(* Vocabulary of the properties.                                           *)
(***************************************************************************)
\* the state cell a resource is stored in
EntityOf(r) ==
    CASE r = CAMERAS     -> cameras
      [] r = PREDICTIONS -> predictions
      [] r = STATUS      -> status
      [] r = ERRORS      -> errors

\* the same state cell after the step
EntityNext(r) ==
    CASE r = CAMERAS     -> cameras'
      [] r = PREDICTIONS -> predictions'
      [] r = STATUS      -> status'
      [] r = ERRORS      -> errors'

\* this step is a step of the fetchData call at position i: the call
\* returned, or it moved on to another line
Stepped(i) ==
    /\ i \in 1..Len(cycles)
    /\ \/ cycles' = Remove(cycles, i)
       \/ /\ Len(cycles') = Len(cycles)
          /\ cycles'[i] # cycles[i]

\* this step is a step of some fetchData call in flight
CycleStep == cycles' # cycles /\ Len(cycles') <= Len(cycles)

\* exactly one of the four fetches failed (rejected or non-success status)
OneFailed(out) == Cardinality({r \in Resources : out[r] # "ok"}) = 1

\* the cycle at position i goes on with the lines from r on, ok being the
\* flags of its responses
GoesOn(i, ok, r) ==
    \E n \in r..Done :
       /\ \A k \in r..(n - 1) : ~ok[k]
       /\ n # Done => ok[n]
       /\ IF n = Done
          THEN cycles' = Remove(cycles, i)
          ELSE /\ Len(cycles') = Len(cycles)
               /\ cycles'[i].pc = n
               /\ \A k \in n..ERRORS : cycles'[i].ok[k] = ok[k]

(***************************************************************************)
(* C1  Partial-failure isolation.  When Promise.all of a cycle settles     *)
(* with exactly one fetch failed (network error or non-success status)     *)
(* and the other three successful, the cycle goes on to the setters of    *)
(* the three successful responses (it suspends at the json() of the first  *)
(* of them, with the other two still to be applied), and every json()      *)
(* that decodes in a live cycle stores the decoded value in its entity;    *)
(* the failed resource's entity is left as it was.                         *)
(***************************************************************************)
C1_PartialFailureIsolation ==
    [][\A i \in 1..MaxInFlight :
         /\ \A out \in [Resources -> Outcomes] :
               (PromiseAllSettles(i, out) /\ OneFailed(out)) =>
                   /\ GoesOn(i, [r \in Resources |-> out[r] = "ok"], CAMERAS)
                   /\ Len(cycles') = Len(cycles)
                   /\ UNCHANGED snapshot
         /\ \A text \in {"[]", "[cam1]", "[pA,pB]", "[e1]", "{s1}", "{s2}"} :
               (JsonResolves(i, text) /\ Live(cycles[i].view)) =>
                   /\ EntityNext(cycles[i].pc) = JsonTable[text]
                   /\ \A r \in Resources \ {cycles[i].pc} :
                         EntityNext(r) = EntityOf(r)
      ]_vars

(***************************************************************************)
(* C2  Stale-but-present.  A step of a poll cycle changes an entity only   *)
(* if the cycle is suspended at the json() of that entity's response,      *)
(* which it reaches only when that response is ok: a cycle whose fetch of  *)
(* an entity failed (Promise.all rejected, or non-success status) leaves   *)
(* that entity as it was, whatever the other three fetches did.            *)
(***************************************************************************)
C2_StaleButPresent ==
    [][CycleStep =>
         \A r \in Resources :
            EntityNext(r) # EntityOf(r) =>
               \E i \in 1..Len(cycles) :
                  /\ Stepped(i)
                  /\ cycles[i].pc = r
                  /\ cycles[i].ok[r]
      ]_vars

\* a live cycle is past Promise.all with the /status fetch failed (it will
\* fall through line 55) while a status from an earlier cycle is present
C2_Witness ==
    \E i \in 1..Len(cycles) :
       /\ Live(cycles[i].view)
       /\ cycles[i].pc \in {CAMERAS, PREDICTIONS}
       /\ ~cycles[i].ok[STATUS]
       /\ status # Null

(***************************************************************************)
(* C3  Decode-failure isolation.  When the json() of one response of a     *)
(* cycle fails to decode, only that resource is skipped: its entity is     *)
(* unchanged and the cycle goes on with the remaining lines, whichever of  *)
(* the four resources the failure hits.                                    *)
(***************************************************************************)
C3_DecodeFailureIsolation ==
    [][\A i \in 1..MaxInFlight :
          JsonResolves(i, "<html>") =>
             /\ UNCHANGED snapshot
             /\ GoesOn(i, cycles[i].ok, cycles[i].pc + 1)
      ]_vars
(***************************************************************************)
(* C4  Poll-vs-push race on predictions.  Whichever write lands last       *)
(* wins: a poll response [pA, pB] applied on a list that holds the pushed  *)
(* item p0 leaves exactly [pA, pB]; the push of p0 applied on the polled   *)
(* list [pA, pB] leaves exactly [p0, pA, pB].  No step produces a merged   *)
(* or deduplicated list: the list is always some pushed items in front of  *)
(* one whole poll response.                                                *)
(***************************************************************************)
\* pushed items, then one poll response as returned
PushedThenPolled(list) ==
    \E k \in 0..Len(list) :
       /\ \A j \in 1..k : list[j] = "p0"
       /\ SubSeq(list, k + 1, Len(list)) \in {<< >>, <<"pA", "pB">>}

C4_PollVsPushRace ==
    [][/\ \A i \in 1..Len(cycles) :
             ( /\ "p0" \in Range(predictions)
               /\ Live(cycles[i].view)
               /\ Stepped(i)
               /\ JsonResolves(i, "[pA,pB]") ) =>
                  predictions' = <<"pA", "pB">>
       /\ \A s \in 1..MaxViews :
             ( /\ OnSendSensorData(s, "{p0}")
               /\ Live(s)
               /\ predictions = <<"pA", "pB">> ) =>
                  predictions' = <<"p0", "pA", "pB">>
       /\ PushedThenPolled(predictions')
      ]_vars

\* the push landed after the poll, and a later poll response is on its way
C4_Witness ==
    /\ predictions = <<"p0", "pA", "pB">>
    /\ \E i \in 1..Len(cycles) :
          Live(cycles[i].view) /\ cycles[i].pc = PREDICTIONS

(***************************************************************************)
(* C5  Push prepend.  A valid send_sensor_data payload decoding to p0,     *)
(* handled for the mounted view, turns the prediction list L into [p0]     *)
(* followed by L: one element longer, L's elements and order kept,         *)
(* whatever L is; cameras, status and errors are unchanged.                *)
(***************************************************************************)
C5_PushPrepend ==
    [][\A s \in 1..MaxViews :
          (OnSendSensorData(s, "{p0}") /\ Live(s)) =>
             /\ Len(predictions') = Len(predictions) + 1
             /\ predictions'[1] = "p0"
             /\ \A k \in 1..Len(predictions) :
                   predictions'[k + 1] = predictions[k]
             /\ UNCHANGED <<cameras, status, errors>>
      ]_vars

\* p0 was pushed onto a list that already held p0
C5_Witness ==
    /\ mounted
    /\ Len(predictions) >= 2
    /\ predictions[1] = "p0"
    /\ predictions[2] = "p0"

(***************************************************************************)
(* C6  Poll path replaces predictions.  When a live cycle applies a        *)
(* successful /predictions response R, the list becomes exactly R; every   *)
(* element that was in the list and is not in R is gone.                   *)
(***************************************************************************)
C6_PollReplacesPredictions ==
    [][\A i \in 1..Len(cycles) :
          \A text \in {"[]", "[pA,pB]"} :
             ( /\ cycles[i].pc = PREDICTIONS
               /\ Live(cycles[i].view)
               /\ Stepped(i)
               /\ JsonResolves(i, text) ) =>
                  LET R == IF text = "[]" THEN << >> ELSE <<"pA", "pB">>
                  IN /\ predictions' = R
                     /\ \A e \in Range(predictions) :
                           e \notin Range(R) => e \notin Range(predictions')
      ]_vars

\* a poll response has been applied and the cycle that applied it, or a
\* later one, is still running its remaining lines
C6_Witness ==
    /\ predictions = <<"pA", "pB">>
    /\ \E i \in 1..Len(cycles) :
          Live(cycles[i].view) /\ cycles[i].pc \in {STATUS, ERRORS}

(***************************************************************************)
(* C7  Full replacement of cameras, status and errors.  When a live cycle  *)
(* applies a successful /cameras, /status or /errors response, the entity  *)
(* equals exactly the decoded response: nothing of the prior value is      *)
(* kept, errors are not accumulated.                                       *)
(***************************************************************************)
C7_FullReplacement ==
    [][\A i \in 1..Len(cycles) :
          \A text \in {"[]", "[cam1]", "[e1]", "{s1}", "{s2}"} :
             ( /\ cycles[i].pc \in {CAMERAS, STATUS, ERRORS}
               /\ Live(cycles[i].view)
               /\ Stepped(i)
               /\ JsonResolves(i, text) ) =>
                  EntityNext(cycles[i].pc) =
                     CASE text = "[]"     -> << >>
                       [] text = "[cam1]" -> <<"cam1">>
                       [] text = "[e1]"   -> <<"e1">>
                       [] text = "{s1}"   -> [cameras |-> 1, uptime |-> 59]
                       [] text = "{s2}"   -> [uptime |-> 3661]
      ]_vars

\* the three entities hold polled values, the status being the one that
\* lacks a field the other status value has
C7_Witness ==
    /\ mounted
    /\ status = [uptime |-> 3661]
    /\ cameras = <<"cam1">>
    /\ errors = <<"e1">>

(***************************************************************************)
(* C8  Transport teardown on unmount.  Once the view is unmounted its      *)
(* push connection is released, and whatever the sequence of mounts and    *)
(* unmounts at most one subscription is active.                            *)
(***************************************************************************)
C8_TransportTeardown ==
    /\ ~mounted => sockets = {}
    /\ Cardinality(sockets) <= 1

(***************************************************************************)
(* C9  Poll scheduling.  Mounting starts a poll cycle at once; every       *)
(* period tick starts a further cycle and ticks occur only for the         *)
(* mounted view, whose timer is active as long as it is mounted; the       *)
(* teardown cancels the timer, and no cycle is started while the view is   *)
(* not mounted.                                                            *)
(***************************************************************************)
\* this step starts a poll cycle of instance v
Starts(v) ==
    /\ Len(cycles') = Len(cycles) + 1
    /\ SubSeq(cycles', 1, Len(cycles)) = cycles
    /\ cycles'[Len(cycles')].view = v
    /\ cycles'[Len(cycles')].pc = 0

C9_PollScheduling ==
    [][/\ (~mounted /\ mounted') => Starts(view')
       /\ \A v \in 1..MaxViews : Tick(v) => (mounted /\ v = view /\ Starts(v))
       /\ Len(cycles') > Len(cycles) => mounted'
       /\ (mounted /\ ~mounted') => interval' = {}
       /\ mounted' => interval' = {view'}
      ]_vars

\* the view was torn down while a poll cycle was in flight, after an
\* earlier cycle had logged a fetch error; the timer is cancelled
C9_Witness ==
    /\ ~mounted
    /\ view = 1
    /\ interval = {}
    /\ Len(cycles) = 1
    /\ lastError = "fetch"

(***************************************************************************)
(* C10  Push decode failure is local.  A send_sensor_data payload that is  *)
(* not valid JSON changes none of the four entities, nor the connection,   *)
(* the timer or the cycles in flight; after it, a valid push is still      *)
(* prepended and a poll response is still applied.                         *)
(***************************************************************************)
C10_PushDecodeFailureLocal ==
    [][/\ \A s \in 1..MaxViews :
             OnSendSensorData(s, "{p0") =>
                UNCHANGED <<snapshot, lifecycle, cycles>>
       /\ lastError = "uncaught" =>
             /\ \A s \in 1..MaxViews :
                   (OnSendSensorData(s, "{p0}") /\ Live(s)) =>
                      predictions' = <<"p0">> \o predictions
             /\ \A i \in 1..Len(cycles) :
                   \A text \in {"[]", "[cam1]", "[pA,pB]", "[e1]", "{s1}", "{s2}"} :
                      (Live(cycles[i].view) /\ Stepped(i) /\ JsonResolves(i, text)) =>
                         EntityNext(cycles[i].pc) = JsonTable[text]
      ]_vars

\* the handler has failed on a payload, and pushed and polled items are in
\* the list of the mounted view, whose connection is still open
C10_Witness ==
    /\ lastError = "uncaught"
    /\ mounted
    /\ view \in sockets
    /\ predictions = <<"p0", "pA", "pB">>

(***************************************************************************)
(* C11.  For a whole number of seconds S >= 0 formatUptime gives           *)
(* "<H>h <M>m" where H is the number of whole hours in S (not capped at a  *)
(* day) and M, between 0 and 59, the number of whole minutes left over;    *)
(* the seconds left over are dropped.  0 gives "0h 0m", 59 gives "0h 0m",  *)
(* 3661 gives "1h 1m", 7200 gives "2h 0m".                                 *)
(***************************************************************************)
C11_FormatUptime ==
    status # Null =>
        LET S == status.uptime
        IN  /\ \E H \in 0..S :
                /\ H * 3600 <= S
                /\ S < (H + 1) * 3600
                /\ \E M \in 0..59 :
                      /\ H * 3600 + M * 60 <= S
                      /\ S < H * 3600 + M * 60 + 60
                      /\ UptimeShown = ToString(H) \o "h " \o ToString(M) \o "m"
            /\ (S = 0    => UptimeShown = "0h 0m")
            /\ (S = 59   => UptimeShown = "0h 0m")
            /\ (S = 3661 => UptimeShown = "1h 1m")
            /\ (S = 7200 => UptimeShown = "2h 0m")

\* an uptime of more than a day is shown after a re-render
C11_Witness ==
    /\ isLogExpanded
    /\ status # Null
    /\ status.uptime = 90061
    /\ UptimeShown = "25h 1m"

(***************************************************************************)
(* C12.  status is null when a view mounts, and the only step that makes   *)
(* it non-null is a poll cycle applying the decoded body of its own        *)
(* successful /status response: a failed status fetch, the responses of    *)
(* the other three resources and push events leave a null status null.     *)
(***************************************************************************)
C12_StatusAbsentUntilSuccess ==
    [][ /\ (~mounted /\ mounted') => status' = Null
        /\ (status = Null /\ status' # Null) =>
              \E i \in 1..Len(cycles) :
                  /\ Live(cycles[i].view)
                  /\ cycles[i].pc = STATUS
                  /\ cycles[i].ok[STATUS]
                  /\ Stepped(i)
                  /\ \E text \in BodyTexts(STATUS) :
                        /\ IsJson(text)
                        /\ status' = JSONparse(text)
                        /\ JsonResolves(i, text) ]_vars

\* cameras and errors were polled and an item was pushed, status still null
C12_Witness ==
    /\ mounted
    /\ status = Null
    /\ cameras = <<"cam1">>
    /\ errors = <<"e1">>
    /\ Len(predictions) > 0
    /\ predictions[1] = "p0"

(***************************************************************************)
(* C13, as stated.  Predictions accumulate: poll results and pushed items  *)
(* are both prepended, so no step of a mounted view removes an entry: the  *)
(* sequence before the step is the tail of the sequence after it.          *)
(***************************************************************************)
IsTailOf(old, new) ==
    /\ Len(old) <= Len(new)
    /\ old = SubSeq(new, Len(new) - Len(old) + 1, Len(new))

C13_PredictionsAccumulate ==
    [][(mounted /\ mounted') => IsTailOf(predictions, predictions')]_vars

(***************************************************************************)
(* C13, amended.  Only pushed items accumulate: a push prepends its item   *)
(* whether or not the item is already in the sequence and whatever the     *)
(* length, and removes nothing.  A predictions poll does not prepend: it   *)
(* replaces the sequence by the fetched list, and it is the only step of   *)
(* a mounted view after which an earlier entry is gone.                    *)
(***************************************************************************)
C13_PushesAccumulatePollsReplace ==
    [][ /\ \A s \in 1..MaxViews : \A data \in PushTexts :
              (Live(s) /\ IsJson(data) /\ OnSendSensorData(s, data)) =>
                  /\ predictions' = <<JSONparse(data)>> \o predictions
                  /\ IsTailOf(predictions, predictions')
        /\ (mounted /\ mounted' /\ ~IsTailOf(predictions, predictions')) =>
              \E i \in 1..Len(cycles) :
                  /\ Live(cycles[i].view)
                  /\ cycles[i].pc = PREDICTIONS
                  /\ Stepped(i)
                  /\ \E text \in BodyTexts(PREDICTIONS) :
                        /\ IsJson(text)
                        /\ predictions' = JSONparse(text)
                        /\ JsonResolves(i, text) ]_vars

\* pushes of one and the same item have filled the sequence, and a poll
\* response that will replace them is about to be decoded
C13_Witness ==
    /\ mounted
    /\ Len(predictions) = MaxPredLen
    /\ \A k \in 1..Len(predictions) : predictions[k] = "p0"
    /\ \E i \in 1..Len(cycles) :
          Live(cycles[i].view) /\ cycles[i].pc = PREDICTIONS

(***************************************************************************)
(* Vocabulary of the properties of one call followed fetch by fetch.       *)
(***************************************************************************)
\* the resources whose fetch has arrived with a success status
OkArrived ==
    {r \in Resources : ArrivalOf(r) > 0 /\ arrived[ArrivalOf(r)][2] = "ok"}

\* this step is the call passing the decoded body of line Y to Y's setter
AppliesSetter(Y) ==
    /\ Len(cycles) = 1
    /\ cycles[1].pc = Y
    /\ \E text \in BodyTexts(Y) : IsJson(text) /\ JsonResolves(1, text)

\* after this step the call is suspended at line L, or has returned
\* when L is Done
SuspendsAt(L) ==
    IF L = Done THEN cycles' = << >>
    ELSE Len(cycles') = 1 /\ cycles'[1].pc = L

\* the first line after line Y whose response was ok, Done if none
NextOkLine(Y) ==
    LET later == {X \in OkArrived : X > Y}
    IN  IF later = {} THEN Done
        ELSE CHOOSE X \in later : \A Z \in later : X <= Z

(***************************************************************************)
(* C14, as stated.  The setters of one cycle are applied in the order      *)
(* their responses arrive: when the setter of Y is applied, the setter of  *)
(* every X whose ok response arrived before Y's has been applied already   *)
(* (the call is past line X).                                              *)
(***************************************************************************)
C14_SettersInArrivalOrder ==
    [][\A Y \in Resources :
          AppliesSetter(Y) =>
             \A X \in OkArrived :
                ArrivalOf(X) < ArrivalOf(Y) => X < cycles[1].pc]_vars

(***************************************************************************)
(* C14, amended.  The setters of one cycle are applied in the fixed order  *)
(* of the source lines, cameras, predictions, status, errors, whatever     *)
(* the order of arrival: once all four fetches have fulfilled the call     *)
(* goes to the first line whose response was ok; applying the setter of Y  *)
(* changes Y's cell only and takes the call to the next line after Y       *)
(* whose response was ok, lines with a response that was not ok being      *)
(* skipped.                                                                *)
(***************************************************************************)
C14_SettersInSourceOrder ==
    [][ /\ ( /\ Len(cycles) = 1
             /\ cycles[1].pc = 0
             /\ cycles' # cycles
             /\ ~Rejected(arrived) ) =>
                /\ SuspendsAt(NextOkLine(0))
        /\ \A Y \in Resources :
              AppliesSetter(Y) =>
                 /\ Y \in OkArrived
                 /\ \A r \in Resources \ {Y} : EntityNext(r) = EntityOf(r)
                 /\ SuspendsAt(NextOkLine(Y)) ]_vars

\* the errors response arrived first and the cameras response after it,
\* both ok; the cameras setter has been applied, the errors setter not yet
C14_Witness ==
    /\ Len(arrived) = Cardinality(Resources)
    /\ arrived[1] = <<ERRORS, "ok">>
    /\ CAMERAS \in OkArrived
    /\ cameras = <<"cam1">>
    /\ errors = << >>
    /\ Len(cycles) = 1
    /\ cycles[1].pc \in {PREDICTIONS, STATUS, ERRORS}
    /\ cycles[1].ok[ERRORS]

(***************************************************************************)
(* C15.  There is no overlap guard.  A tick of a running timer can start   *)
(* a new call of fetchData while earlier calls are in flight, and leaves   *)
(* those as they are.  A call suspended at a json() line can take its      *)
(* step whatever the calls started after it have done; when an             *)
(* earlier-started call applies the setter of a line that a later-started  *)
(* call in flight is already past, the cell takes the earlier call's       *)
(* value.                                                                  *)
(***************************************************************************)
\* a body of resource r that decodes
ValidBody(r) == CHOOSE text \in BodyTexts(r) : IsJson(text)

C15_NoOverlapGuard ==
    /\ [](\A v \in interval :
             Len(cycles) < MaxOverlap => ENABLED TickWithin(v, MaxOverlap))
    /\ [](\A i \in 1..Len(cycles) :
             cycles[i].pc \in Resources =>
                ENABLED JsonResolves(i, ValidBody(cycles[i].pc)))
    /\ [][ /\ \A v \in interval :
                 TickWithin(v, MaxOverlap) =>
                    /\ Len(cycles') = Len(cycles) + 1
                    /\ \A i \in 1..Len(cycles) : cycles'[i] = cycles[i]
           /\ \A i \in 1..Len(cycles) :
                 ( /\ Stepped(i)
                   /\ cycles[i].pc \in Resources
                   /\ Live(cycles[i].view)
                   /\ \E j \in (i + 1)..Len(cycles) :
                         cycles[j].pc > cycles[i].pc ) =>
                      \A text \in BodyTexts(cycles[i].pc) :
                         (IsJson(text) /\ JsonResolves(i, text)) =>
                            EntityNext(cycles[i].pc) = JSONparse(text) ]_vars

\* two calls in flight: the earlier-started one still awaits its fetches,
\* the later-started one has applied cameras and predictions and is at its
\* last line
C15_Witness ==
    /\ Len(cycles) = 2
    /\ cycles[1].pc = 0
    /\ cycles[2].pc = ERRORS
    /\ cameras = <<"cam1">>
    /\ predictions = <<"pA", "pB">>

(***************************************************************************)
(* C16.  In every step that leaves a view mounted the prediction sequence  *)
(* is unchanged, or a push has put exactly one item in front of it, or a   *)
(* poll has set it to the decoded /predictions response; the cameras,      *)
(* status and errors lines of a call and the log toggle leave it as it     *)
(* is.  (An unmount discards the state of the instance.)                   *)
(***************************************************************************)
C16_GrowOrReplace ==
    [][ /\ (mounted /\ mounted') =>
              \/ predictions' = predictions
              \/ /\ Len(predictions') = Len(predictions) + 1
                 /\ Tail(predictions') = predictions
                 /\ \E data \in PushTexts :
                       /\ IsJson(data)
                       /\ Head(predictions') = JSONparse(data)
                       /\ OnSendSensorData(view, data)
              \/ \E i \in 1..Len(cycles) :
                    /\ cycles[i].pc = PREDICTIONS
                    /\ Stepped(i)
                    /\ \E text \in BodyTexts(PREDICTIONS) :
                          /\ IsJson(text)
                          /\ predictions' = JSONparse(text)
                          /\ JsonResolves(i, text)
        /\ (isLogExpanded' # isLogExpanded /\ mounted') =>
              predictions' = predictions
        /\ \A i \in 1..Len(cycles) :
              (Stepped(i) /\ cycles[i].pc # PREDICTIONS) =>
                 predictions' = predictions ]_vars

\* the log is expanded over a polled list with one pushed item in front,
\* while a call is at its status or errors line
C16_Witness ==
    /\ mounted
    /\ isLogExpanded
    /\ predictions = <<"p0", "pA", "pB">>
    /\ \E i \in 1..Len(cycles) : cycles[i].pc \in {STATUS, ERRORS}

(***************************************************************************)
(* C17.  A call applies no setter before all four of its fetches have      *)
(* fulfilled, and if one of them rejects it applies none: its next step    *)
(* is its return through the catch block (console.error), and cameras,     *)
(* status and errors stay as they were before the call, predictions        *)
(* holding nothing but pushed items.                                       *)
(***************************************************************************)
C17_AllOrNothingOnRejection ==
    [][ /\ (cycles' # cycles /\ snapshot' # snapshot) =>
              /\ Len(arrived) = Cardinality(Resources)
              /\ ~Rejected(arrived)
        /\ (Rejected(arrived) /\ cycles' # cycles) =>
              /\ cycles' = << >>
              /\ lastError' = "fetch"
              /\ UNCHANGED snapshot
        /\ Rejected(arrived') =>
              /\ cameras' = << >>
              /\ status' = Null
              /\ errors' = << >>
              /\ \A k \in 1..Len(predictions') : predictions'[k] = "p0" ]_vars

\* the cameras response arrived ok, then another fetch rejected: the call
\* has returned through the catch block and cameras was not set
C17_Witness ==
    /\ Len(arrived) = 2
    /\ arrived[1] = <<CAMERAS, "ok">>
    /\ arrived[2][2] = "reject"
    /\ cycles = << >>
    /\ lastError = "fetch"
    /\ cameras = << >>

====
